---- MODULE Spec2Model ----
(***************************************************************************)
(* Model of the dice roller (src/dice.py): the DiceSimulator window, its   *)
(* roll button, the timer-driven roll animation and the roll history.      *)
(*                                                                         *)
(* One action per event the Tk event loop can dispatch: a click on the     *)
(* roll button, a press of the space key, the firing of an `after`         *)
(* callback, and the closing of the window.  Handlers run to completion on *)
(* the one event-loop thread, so each is one atomic step.                  *)
(*                                                                         *)
(* roll_dice is the handler as the source has it, whoever calls it.  Its   *)
(* own guard compares the button's state option, which tkinter hands back  *)
(* as a Tcl_Obj, with a str, and so never holds.  What drops a request     *)
(* made during a roll is the button itself: roll_dice disabled it, and a   *)
(* disabled ttk button runs its command neither on a click nor on          *)
(* invoke().                                                               *)
(***************************************************************************)
EXTENDS Integers, Sequences, FiniteSets, TLC

VARIABLES
    app,            \* "starting" before __init__ ran, "running" while mainloop dispatches
                    \* events, "destroyed" after destroy(), "exited" after SystemExit,
                    \* "crashed" after an exception left __init__
    mixer,          \* TRUE while the pygame mixer is initialised
    roll_sound,     \* TRUE when self.roll_sound is a loaded Sound, FALSE when it is None
    button_state,   \* self.roll_button['state']: "normal" or "disabled"
    history,        \* self.history
    dice_label,     \* the image self.dice_label shows
    history_label,  \* the text of self.history_label, as the pieces it is built from
    timers,         \* pending self.after callbacks, in firing order
    rng,            \* the random source: real, or scripted by a test
    draws,          \* number of random.randint calls made so far
    accepted,       \* number of roll requests roll_dice ran for (lines 85-90)
    rejected,       \* number of roll requests dropped (by the disabled button, or the guard)
    sampled,        \* the final_face drawn by the last accepted roll_dice (0 before any)
    trace,          \* calls made to the presentation side since the last accepted request
    sound_loads,    \* number of pygame.mixer.Sound(...) calls made so far
    images          \* the faces whose image is loaded: the keys of self.dice_images

vars == <<app, mixer, roll_sound, button_state, history, dice_label, history_label,
          timers, rng, draws, accepted, rejected, sampled, trace, sound_loads, images>>

(***************************************************************************)
(* Bounds of the model.                                                    *)
(***************************************************************************)
\* accepted rolls explored with the real random source (every face at every draw)
MaxRolls == 2
\* accepted rolls explored with a scripted random source (one face at every draw)
MaxScriptedRolls == 7
\* dropped requests counted
MaxRejected == 1

(***************************************************************************)
(* Program constants.                                                      *)
(***************************************************************************)
\* animate_roll(self, final_face, count=5)
ANIMATION_STEPS == 5
\* random.randint(1, 6)
RANDINT_LOW == 1
RANDINT_HIGH == 6
\* range(1, 7) in load_images
IMAGE_RANGE_START == 1
IMAGE_RANGE_STOP == 7
\* self.history[-5:]
HISTORY_SLICE == 5

(***************************************************************************)
(* Helpers: Python built-ins as the code uses them.                        *)
(***************************************************************************)
\* range(start, stop)
range(start, stop) == start .. (stop - 1)

\* a wrong slice: xs[:k], the first k entries
SliceFirst(xs, k) == SubSeq(xs, 1, IF Len(xs) < k THEN Len(xs) ELSE k)

\* xs[-k:] for k > 0: the slice from max(len(xs) - k, 0) to the end
SliceLast(xs, k) ==
    LET n == Len(xs)
        start == IF n - k > 0 THEN n - k ELSE 0
    IN  SubSeq(xs, start + 1, n)

\* map(str, xs)
MapStr(xs) == [i \in 1..Len(xs) |-> ToString(xs[i])]

\* sep.join(xs), as the sequence of pieces that make up the string
RECURSIVE Join(_, _)
Join(sep, xs) ==
    IF Len(xs) = 0 THEN <<>>
    ELSE IF Len(xs) = 1 THEN <<xs[1]>>
    ELSE <<xs[1], sep>> \o Join(sep, Tail(xs))

\* self.dice_images after load_images: face -> PhotoImage(file=f'images/dice{i}.png')
dice_images ==
    [i \in range(IMAGE_RANGE_START, IMAGE_RANGE_STOP) |-> <<"images/dice", i, ".png">>]

\* self.dice_images[face]; a missing key raises KeyError
ImageLookup(face) ==
    IF face \in DOMAIN dice_images THEN dice_images[face] ELSE <<"KeyError", face, "">>

\* the text update_history builds
HistoryText(h) ==
    <<"Roll History:\n">> \o Join("\n", MapStr(SliceLast(h, HISTORY_SLICE)))

\* self.roll_button['state']: tkinter returns the option of a ttk widget as a Tcl_Obj
TclObj(string) == [type |-> "Tcl_Obj", string |-> string]

\* a Python str literal
PyStr(string) == [type |-> "str", string |-> string]

\* the guard of roll_dice: self.roll_button['state'] == 'disabled'.  A Tcl_Obj never
\* equals a str, whatever its string is, so the guard holds for no state of the button
IsDisabled(state) == TclObj(state) = PyStr("disabled")

\* a ttk button runs its command, on a click or on invoke(), unless it is disabled
TtkRunsCommand(state) == state # "disabled"

\* a wrong commit: self.history.insert(0, final_face)
HistoryPrepend(h, face) == <<face>> \o h

\* a double commit: the outcome appended twice
HistoryAppendTwice(h, face) == Append(Append(h, face), face)

\* self.history.append(final_face)
HistoryAppend(h, face) == Append(h, face)

\* a missing disable: the button left as it was
AcceptStateNormal == "normal"

\* self.roll_button.config(state='disabled') in roll_dice
AcceptState == "disabled"

\* a wrong order: update_history() called before the append
LabelSourceBefore(before, after) == before

\* the history update_history reads: self.history after the append of line 106
LabelSource(before, after) == after

\* a missing final render: the last random frame stays on screen
FinalShownStale(final_face, shown) == shown

\* self.update_dice_image(final_face) in the final step; shown is the image before it
FinalShown(final_face, shown) == ImageLookup(final_face)

\* a wrong closure: the callback carries the face just shown
ClosureFaceShown(final_face, random_face) == random_face

\* the face the re-armed callback is closed over: lambda: self.animate_roll(final_face, count - 1)
ClosureFace(final_face, random_face) == final_face

\* a wrong countdown: two steps at a time
ClosureCountSkips(count) == count - 2

\* the countdown the re-armed callback is closed over
ClosureCount(count) == count - 1

\* a wrong test: if count > 1
CountdownLiveOffByOne(count) == count > 1

\* the test of animate_roll: if count > 0
CountdownLive(count) == count > 0

\* a missing re-arm: the callback is never scheduled
AfterDropped(tm, cb) == tm

\* self.after(100, callback): the callback joins the pending timers; all delays are
\* equal, so callbacks fire in the order they were scheduled
After(tm, cb) == Append(tm, cb)

(***************************************************************************)
(* The random source.  With the real source any face may come out of any   *)
(* draw.  A scripted source (random.randint replaced by a test) gives the  *)
(* i-th draw as a function of i: the roll it belongs to and its place in   *)
(* that roll.                                                              *)
(***************************************************************************)
DrawsPerRoll == ANIMATION_STEPS + 1

Scripted(i) == rng.base + rng.per_roll * (i \div DrawsPerRoll) + rng.per_frame * (i % DrawsPerRoll)

\* a wrong range: one face more than the die has
randintWide(a, b, i) ==
    IF rng.scripted THEN {a + (Scripted(i) % (b - a + 2))} ELSE a .. (b + 1)

\* random.randint(a, b) at the i-th draw (i counted from 0): the set of possible results
randint(a, b, i) ==
    IF rng.scripted THEN {a + (Scripted(i) % (b - a + 1))} ELSE a .. b

RealRandom == [scripted |-> FALSE, base |-> 0, per_roll |-> 0, per_frame |-> 0]

ScriptedRandoms ==
    [scripted : {TRUE}, base : 0 .. (RANDINT_HIGH - RANDINT_LOW), per_roll : {0, 1}, per_frame : {0, 1}]

RollCap == IF rng.scripted THEN MaxScriptedRolls ELSE MaxRolls

(***************************************************************************)
(* Calls to the presentation side, recorded in the order the code makes    *)
(* them.  n is the countdown of the call for "frame" and "after".          *)
(***************************************************************************)
Ev(name, n) == [ev |-> name, n |-> n]

\* a wrong order: the sound played before the button is disabled
AcceptEventsSoundFirst ==
    (IF roll_sound THEN <<Ev("sound", 0)>> ELSE <<>>) \o <<Ev("disable", 0)>>

\* roll_dice, lines 85-88
AcceptEvents ==
    <<Ev("disable", 0)>> \o (IF roll_sound THEN <<Ev("sound", 0)>> ELSE <<>>)

\* animate_roll, lines 101-103
FrameEvents(count) == <<Ev("frame", count), Ev("after", ClosureCount(count))>>

\* a wrong order: the button re-enabled before the history is refreshed
FinalEventsEnableFirst ==
    <<Ev("final", 0), Ev("append", 0), Ev("enable", 0), Ev("history", 0)>>

\* animate_roll, lines 105-108
FinalEvents == <<Ev("final", 0), Ev("append", 0), Ev("history", 0), Ev("enable", 0)>>

(***************************************************************************)
(* Init: the state after DiceSimulator() returned, with the images loaded. *)
(***************************************************************************)
Init ==
    /\ app = "running"
    /\ mixer = TRUE
    /\ roll_sound \in BOOLEAN
    /\ button_state = "normal"
    /\ history = <<>>
    /\ dice_label = dice_images[1]
    /\ history_label = <<"Roll History:\n">>
    /\ timers = <<>>
    /\ rng \in {RealRandom} \cup ScriptedRandoms
    /\ draws = 0
    /\ accepted = 0
    /\ rejected = 0
    /\ sampled = 0
    /\ trace = <<>>
    /\ sound_loads = 1
    /\ images = DOMAIN dice_images

(***************************************************************************)
(* animate_roll(final_face, count), called with the trace, the pending     *)
(* timers and the draw counter as the caller left them; btn is the button  *)
(* state on entry and roll the number of the roll it animates.             *)
(***************************************************************************)
animate_roll(final_face, count, roll, btn, tr, tm, d) ==
    IF CountdownLive(count)
    THEN \E random_face \in randint(RANDINT_LOW, RANDINT_HIGH, d) :
            /\ draws' = d + 1
            /\ button_state' = btn
            /\ UNCHANGED <<history, history_label>>
            /\ IF random_face \in DOMAIN dice_images
               THEN /\ dice_label' = ImageLookup(random_face)
                    /\ timers' = After(tm, [final_face |-> ClosureFace(final_face, random_face),
                                            count |-> ClosureCount(count),
                                            roll |-> roll])
                    /\ trace' = tr \o FrameEvents(count)
               ELSE \* KeyError at line 112 leaves the handler before line 103
                    /\ timers' = tm
                    /\ trace' = tr
                    /\ UNCHANGED dice_label
    ELSE /\ draws' = d
         /\ timers' = tm
         /\ IF final_face \in DOMAIN dice_images
            THEN /\ dice_label' = FinalShown(final_face, dice_label)
                 /\ history' = HistoryAppend(history, final_face)
                 /\ history_label' = HistoryText(LabelSource(history, history'))
                 /\ button_state' = "normal"
                 /\ trace' = tr \o FinalEvents
            ELSE \* KeyError at line 112 leaves the handler before line 106
                 /\ button_state' = btn
                 /\ trace' = tr
                 /\ UNCHANGED <<dice_label, history, history_label>>

(***************************************************************************)
(* roll_dice: the command of the roll button, as any caller finds it.      *)
(***************************************************************************)
roll_dice ==
    /\ app = "running"
    /\ IF IsDisabled(button_state)
       THEN /\ rejected < MaxRejected
            /\ rejected' = rejected + 1
            /\ UNCHANGED <<button_state, history, dice_label, history_label, timers,
                           draws, accepted, sampled, trace>>
       ELSE /\ accepted < RollCap
            /\ accepted' = accepted + 1
            /\ \E final_face \in randint(RANDINT_LOW, RANDINT_HIGH, draws) :
                  /\ sampled' = final_face
                  /\ animate_roll(final_face, ANIMATION_STEPS, accepted + 1, AcceptState,
                                  AcceptEvents, timers, draws + 1)
            /\ UNCHANGED rejected
    /\ UNCHANGED <<app, mixer, roll_sound, sound_loads, images, rng>>

\* a request the disabled button does not pass on: roll_dice is not called
Dropped ==
    /\ app = "running"
    /\ rejected < MaxRejected
    /\ rejected' = rejected + 1
    /\ UNCHANGED <<app, mixer, roll_sound, sound_loads, images, rng, button_state, history,
                   dice_label, history_label, timers, draws, accepted, sampled, trace>>

\* a click on the roll button: command=self.roll_dice
ClickRollButton ==
    IF TtkRunsCommand(button_state) THEN roll_dice ELSE Dropped

\* the space key: self.bind('<space>', lambda event: self.roll_button.invoke())
PressSpace ==
    IF TtkRunsCommand(button_state) THEN roll_dice ELSE Dropped

\* the event loop fires the oldest pending after callback
TimerFire ==
    /\ app = "running"
    /\ timers # <<>>
    /\ LET cb == Head(timers)
       IN  animate_roll(cb.final_face, cb.count, cb.roll, button_state, trace, Tail(timers), draws)
    /\ UNCHANGED <<app, mixer, roll_sound, sound_loads, images, rng, accepted, rejected, sampled>>

\* destroy(): the window is closed (WM_DELETE_WINDOW); mainloop returns
Destroy ==
    /\ app = "running"
    /\ mixer' = FALSE
    /\ app' = "destroyed"
    /\ UNCHANGED <<roll_sound, button_state, history, dice_label, history_label, timers,
                   rng, draws, accepted, rejected, sampled, trace, sound_loads, images>>

Next ==
    \/ ClickRollButton
    \/ PressSpace
    \/ TimerFire
    \/ Destroy

Spec == Init /\ [][Next]_vars

\* the event loop fires every timer that stays pending
FairSpec == Spec /\ WF_vars(TimerFire)

(***************************************************************************)
(* The same handlers when a call to the presentation side raises.  Nothing *)
(* in roll_dice, animate_roll or update_dice_image catches: the exception  *)
(* leaves the handler at the failing line, Tk reports it and the event     *)
(* loop goes on.                                                           *)
(***************************************************************************)
\* animate_roll when update_dice_image raises (line 102 or line 105)
animate_roll_raises(final_face, count, btn, tr, tm, d) ==
    /\ IF CountdownLive(count)
       THEN \E random_face \in randint(RANDINT_LOW, RANDINT_HIGH, d) :
               /\ draws' = d + 1
               /\ trace' = tr \o <<Ev("frame_raised", count)>>
       ELSE /\ draws' = d
            /\ trace' = tr \o <<Ev("final_raised", 0)>>
    /\ timers' = tm
    /\ button_state' = btn
    /\ UNCHANGED <<dice_label, history, history_label>>

\* roll_dice when self.roll_sound.play() raises (line 88)
RollDicePlayRaises ==
    /\ app = "running"
    /\ ~IsDisabled(button_state)
    /\ roll_sound
    /\ accepted < RollCap
    /\ accepted' = accepted + 1
    /\ button_state' = "disabled"
    /\ trace' = <<Ev("disable", 0), Ev("sound_raised", 0)>>
    /\ UNCHANGED <<app, mixer, roll_sound, sound_loads, images, history, dice_label, history_label, timers,
                   rng, draws, rejected, sampled>>

\* roll_dice when the first update_dice_image raises (line 102, reached from line 90)
RollDiceRenderRaises ==
    /\ app = "running"
    /\ ~IsDisabled(button_state)
    /\ accepted < RollCap
    /\ accepted' = accepted + 1
    /\ \E final_face \in randint(RANDINT_LOW, RANDINT_HIGH, draws) :
          /\ sampled' = final_face
          /\ animate_roll_raises(final_face, ANIMATION_STEPS, "disabled", AcceptEvents,
                                 timers, draws + 1)
    /\ UNCHANGED <<app, mixer, roll_sound, sound_loads, images, rng, rejected>>

\* an after callback in which update_dice_image raises
TimerFireRenderRaises ==
    /\ app = "running"
    /\ timers # <<>>
    /\ LET cb == Head(timers)
       IN  animate_roll_raises(cb.final_face, cb.count, button_state, trace, Tail(timers), draws)
    /\ UNCHANGED <<app, mixer, roll_sound, sound_loads, images, rng, accepted, rejected, sampled>>

\* a click or the space key on the enabled button, play() raising
InvokePlayRaises == TtkRunsCommand(button_state) /\ RollDicePlayRaises

\* a click or the space key on the enabled button, the first render raising
InvokeRenderRaises == TtkRunsCommand(button_state) /\ RollDiceRenderRaises

NextFault ==
    \/ ClickRollButton
    \/ PressSpace
    \/ TimerFire
    \/ Destroy
    \/ InvokePlayRaises
    \/ InvokeRenderRaises
    \/ TimerFireRenderRaises

SpecFault == Init /\ [][NextFault]_vars

(***************************************************************************)
(* Startup: DiceSimulator() followed by app.mainloop().  The files on disk *)
(* are the input: whether dice_sound.mp3 loads, and which of the six       *)
(* images/dice{i}.png cannot be read.                                      *)
(***************************************************************************)
InitStart ==
    /\ app = "starting"
    /\ mixer = FALSE
    /\ roll_sound = FALSE
    /\ button_state = "none"
    /\ history = <<>>
    /\ dice_label = <<"none", 0, "">>
    /\ history_label = <<>>
    /\ timers = <<>>
    /\ rng \in {RealRandom} \cup ScriptedRandoms
    /\ draws = 0
    /\ accepted = 0
    /\ rejected = 0
    /\ sampled = 0
    /\ trace = <<>>
    /\ sound_loads = 0
    /\ images = {}

Faces == range(IMAGE_RANGE_START, IMAGE_RANGE_STOP)

\* load_images: the loop stores the images in order and stops at the first file that
\* cannot be read
LoadedImages(unreadable) == {i \in Faces : \A j \in Faces : j <= i => j \notin unreadable}

\* a swallowed error: the except branch of load_images never taken
LoadImagesNeverRaises(unreadable) == FALSE

\* load_images reaches its except branch: some PhotoImage(file=...) raised tk.TclError
LoadImagesRaises(unreadable) == LoadedImages(unreadable) # Faces

\* the ways pygame.mixer.Sound('dice_sound.mp3') ends: it returns the Sound, it raises
\* pygame.error, or it raises another exception (pygame 2 raises FileNotFoundError for
\* a missing file)
SoundOutcomes == {"loaded", "pygame.error", "other"}

\* lines 18-23 when pygame.mixer.init() returned: the sound loaded, the warning of the
\* except branch printed, or an exception the except clause does not name
SoundEvents(sound) ==
    <<Ev("mixer_init", 0),
      Ev(CASE sound = "loaded" -> "sound_loaded"
           [] sound = "pygame.error" -> "sound_warning"
           [] OTHER -> "sound_raised", 0)>>

\* __init__, lines 10-35.  An exception leaves the constructor when tk.Tk.__init__
\* raises (no display, line 12), when pygame.mixer.init() raises (line 18, outside the
\* try) and when Sound() raises anything but pygame.error (line 20).  When load_images
\* fails: the message, destroy() and SystemExit
Construct ==
    /\ app = "starting"
    /\ \E tk_ok \in BOOLEAN, mixer_ok \in BOOLEAN, sound \in SoundOutcomes,
          unreadable \in SUBSET Faces :
          IF ~tk_ok
          THEN /\ app' = "crashed"
               /\ UNCHANGED <<mixer, roll_sound, sound_loads, images, button_state,
                              dice_label, history_label, trace>>
          ELSE IF ~mixer_ok
          THEN /\ app' = "crashed"
               /\ trace' = <<Ev("mixer_init_raised", 0)>>
               /\ UNCHANGED <<mixer, roll_sound, sound_loads, images, button_state,
                              dice_label, history_label>>
          ELSE IF sound = "other"
          THEN /\ app' = "crashed"
               /\ mixer' = TRUE
               /\ sound_loads' = sound_loads + 1
               /\ trace' = SoundEvents(sound)
               /\ UNCHANGED <<roll_sound, images, button_state, dice_label, history_label>>
          ELSE /\ roll_sound' = (sound = "loaded")
               /\ sound_loads' = sound_loads + 1
               /\ images' = LoadedImages(unreadable)
               /\ IF LoadImagesRaises(unreadable)
                  THEN /\ app' = "exited"
                       /\ mixer' = FALSE
                       /\ trace' = SoundEvents(sound) \o
                                   <<Ev("load_error", 0), Ev("destroy", 0), Ev("exit", 0)>>
                       /\ UNCHANGED <<button_state, dice_label, history_label>>
                  ELSE /\ app' = "running"
                       /\ mixer' = TRUE
                       /\ trace' = SoundEvents(sound) \o
                                   <<Ev("setup_ui", 0), Ev("bind_space", 0)>>
                       /\ button_state' = "normal"
                       /\ dice_label' = ImageLookup(1)
                       /\ history_label' = <<"Roll History:\n">>
    /\ history' = <<>>
    /\ UNCHANGED <<timers, rng, draws, accepted, rejected, sampled>>

NextStart ==
    \/ Construct
    \/ ClickRollButton
    \/ PressSpace
    \/ TimerFire
    \/ Destroy

SpecStart == InitStart /\ [][NextStart]_vars

(***************************************************************************)
(* Helpers of the properties.                                              *)
(***************************************************************************)
\* positions of the calls named name in a trace
Positions(tr, name) == {i \in 1..Len(tr) : tr[i].ev = name}

\* a roll has been accepted and its final step has not run
InFlight == accepted > Len(history)

\* the last accepted roll has run its final step
Completed == accepted > 0 /\ Len(history) = accepted

(***************************************************************************)
(* C1: for every completed roll the entry appended to history is the       *)
(* final_face that roll_dice drew when the request was accepted: every     *)
(* pending callback carries that face whatever intermediate faces were     *)
(* drawn, and history changes only by appending it.                        *)
(***************************************************************************)
C1_TargetCarried == \A i \in 1..Len(timers) : timers[i].final_face = sampled

C1_CommittedIsSampled ==
    /\ []C1_TargetCarried
    /\ [][history' # history => history' = Append(history, sampled) /\ sampled' = sampled]_vars

\* two rolls completed with different outcomes, the last frame shown before the
\* second result differed from it
C1_Witness ==
    /\ Completed
    /\ Len(history) = 2
    /\ history[1] # history[2]
    /\ history[2] = sampled
    /\ dice_label = ImageLookup(sampled)

(***************************************************************************)
(* C2: every accepted roll emits exactly 5 intermediate face updates, all  *)
(* before its one final face update: while the roll is in flight the       *)
(* number emitted is 5 minus the pending countdown, the final update comes *)
(* after exactly 5 of them, and none follows it.                           *)
(***************************************************************************)
C2_FiveFramesThenFinal ==
    LET frames == Positions(trace, "frame")
        finals == Positions(trace, "final")
    IN  /\ Cardinality(frames) <= 5
        /\ Cardinality(finals) <= 1
        /\ \A f \in finals : Cardinality(frames) = 5 /\ \A i \in frames : i < f
        /\ \A i \in 1..Len(timers) : Cardinality(frames) = 5 - timers[i].count
        /\ Completed => Cardinality(finals) = 1

C2_Witness ==
    /\ Completed
    /\ Cardinality(Positions(trace, "frame")) = 5
    /\ Cardinality(Positions(trace, "final")) = 1

(***************************************************************************)
(* C3: a roll request made while the button is disabled is dropped: it     *)
(* samples nothing, schedules nothing, plays nothing and leaves history,   *)
(* the countdown and the target of the roll in flight as they were; and no *)
(* request is accepted while the button is disabled.                       *)
(***************************************************************************)
C3_BusyRequestIsNoOp ==
    [][ /\ rejected' # rejected =>
              /\ button_state = "disabled"
              /\ InFlight
              /\ UNCHANGED <<app, mixer, roll_sound, sound_loads, images, button_state, history, dice_label,
                             history_label, timers, rng, draws, accepted, sampled, trace>>
        /\ InFlight => accepted' = accepted /\ sampled' = sampled
        /\ (InFlight /\ Positions(trace', "sound") # {}) => trace'[2] = trace[2]
      ]_vars

\* a request was dropped during a roll and that roll went on to complete alone
C3_Witness ==
    /\ rejected = 1
    /\ accepted = 1
    /\ history = <<sampled>>
    /\ button_state = "normal"
    /\ timers = <<>>

(***************************************************************************)
(* C4: the history shown is the last min(5, n) entries of the n committed  *)
(* ones, oldest first; six rolls 1,2,3,4,5,6 show 2,3,4,5,6.               *)
(***************************************************************************)
C4_ShownIsLastFive ==
    LET n == Len(history)
        m == IF n < 5 THEN n ELSE 5
        shown == [i \in 1..m |-> ToString(history[n - m + i])]
    IN  /\ history_label = <<"Roll History:\n">> \o Join("\n", shown)
        /\ history = <<1, 2, 3, 4, 5, 6>> =>
              history_label = <<"Roll History:\n", "2", "\n", "3", "\n", "4", "\n", "5", "\n", "6">>

C4_Witness ==
    /\ history = <<1, 2, 3, 4, 5, 6>>
    /\ button_state = "normal"
    /\ Len(history_label) = 10

(***************************************************************************)
(* C5: within a roll the intermediate faces are emitted in countdown order *)
(* 5,4,3,2,1, then the final face, then the history refresh, and only then *)
(* is the button re-enabled; until then it stays disabled.                 *)
(***************************************************************************)
C5_EmissionOrder ==
    LET frames == Positions(trace, "frame")
        finals == Positions(trace, "final")
        shows == Positions(trace, "history")
        enables == Positions(trace, "enable")
    IN  /\ \A i, j \in frames : i < j => trace[i].n > trace[j].n
        /\ \A i \in frames : Cardinality({j \in frames : j < i}) = 5 - trace[i].n
        /\ \A i \in frames, f \in finals : i < f
        /\ \A h \in shows : \E f \in finals : f < h
        /\ \A e \in enables : e = Len(trace) /\ \E h \in shows : h < e
        /\ (accepted > 0 /\ enables = {}) => button_state = "disabled"
        /\ (accepted > 0 /\ button_state = "normal") => enables # {}

C5_Witness ==
    /\ Completed
    /\ button_state = "normal"
    /\ Positions(trace, "enable") = {Len(trace)}
    /\ Positions(trace, "history") = {Len(trace) - 1}

(***************************************************************************)
(* C6 as stated: every roll in flight eventually completes, the button     *)
(* enabled again.  Closing the window during a roll ends the event loop    *)
(* with the callback pending, so this fails.                               *)
(***************************************************************************)
C6_EveryRollCompletes ==
    (button_state = "disabled") ~> (button_state = "normal" /\ Completed)

(***************************************************************************)
(* C6, amended: with every pending timer callback eventually fired, every  *)
(* roll in flight eventually shows its final face, commits it to history  *)
(* and re-enables the button with no timer left, unless the window is      *)
(* closed first.                                                           *)
(***************************************************************************)
C6_RollCompletesUnlessClosed ==
    (button_state = "disabled") ~>
        \/ /\ button_state = "normal"
           /\ Completed
           /\ timers = <<>>
           /\ dice_label = ImageLookup(history[Len(history)])
        \/ app = "destroyed"

\* a roll ran through its five timer callbacks to completion, the window still open
C6_Witness ==
    /\ app = "running"
    /\ Completed
    /\ button_state = "normal"
    /\ timers = <<>>
    /\ Cardinality(Positions(trace, "after")) = 5

(***************************************************************************)
(* C7: at most one roll animation is in flight: never more than one timer  *)
(* callback is pending, a pending callback belongs to the roll accepted    *)
(* last and the button is disabled while it is pending, and at most one    *)
(* accepted roll is not yet committed.                                     *)
(***************************************************************************)
C7_OneAnimationInFlight ==
    /\ Len(timers) <= 1
    /\ accepted - Len(history) \in {0, 1}
    /\ \A i \in 1..Len(timers) :
          /\ timers[i].roll = accepted
          /\ button_state = "disabled"
          /\ InFlight

\* a second roll is under way, a request was dropped, one callback is pending
C7_Witness ==
    /\ accepted = 2
    /\ rejected = 1
    /\ Len(timers) = 1
    /\ timers[1].count = 2

(***************************************************************************)
(* C8: history is append-only: a step either leaves it alone or appends    *)
(* one entry, and it appends only in the final animation step; accepting a *)
(* request or running an intermediate step leaves it unchanged.            *)
(***************************************************************************)
C8_AppendOnly ==
    [][ /\ Len(history') \in {Len(history), Len(history) + 1}
        /\ SubSeq(history', 1, Len(history)) = history
        /\ history' # history =>
              /\ timers # <<>>
              /\ Head(timers).count = 0
              /\ timers' = Tail(timers)
              /\ accepted' = accepted
        /\ accepted' # accepted => history' = history
        /\ (timers # <<>> /\ Head(timers).count > 0) => history' = history
      ]_vars

\* three distinct entries committed one by one, a fourth roll under way
C8_Witness ==
    /\ Len(history) = 3
    /\ history[1] # history[2]
    /\ history[2] # history[3]
    /\ InFlight

(***************************************************************************)
(* C9: every outcome is in 1..6: the face shown, the target of the roll in *)
(* flight and every history entry; the six images are keyed 1..6, so the   *)
(* lookup of a face never misses.                                          *)
(***************************************************************************)
C9_OutcomesInRange ==
    /\ DOMAIN dice_images = 1..6
    /\ dice_label[1] = "images/dice"
    /\ dice_label[2] \in 1..6
    /\ \A i \in 1..Len(history) : history[i] \in 1..6
    /\ \A i \in 1..Len(timers) : timers[i].final_face \in 1..6
    /\ accepted > 0 => sampled \in 1..6

\* a roll in flight shows face 6 while its target is 1
C9_Witness ==
    /\ timers # <<>>
    /\ sampled = 1
    /\ dice_label = <<"images/dice", 6, ".png">>

(***************************************************************************)
(* C10 as stated: a render or sound call that raises does not abort the    *)
(* roll: while the button is disabled the next step is still scheduled, so *)
(* the roll goes on to commit its outcome and re-enable the button.        *)
(***************************************************************************)
C10_FailureDoesNotAbort ==
    (app = "running" /\ button_state = "disabled") => timers # <<>>

(***************************************************************************)
(* Helpers of the startup and call-sequence properties.                    *)
(***************************************************************************)
NotSound(e) == e.ev # "sound"

\* the k intermediate calls of a roll, from countdown c down
RECURSIVE FrameCalls(_, _)
FrameCalls(c, k) ==
    IF k = 0 THEN <<>>
    ELSE <<[ev |-> "frame", n |-> c], [ev |-> "after", n |-> c - 1]>> \o FrameCalls(c - 1, k - 1)

\* the calls of a roll that has shown k frames, sound aside
RollCalls(k, done) ==
    <<[ev |-> "disable", n |-> 0]>> \o FrameCalls(5, k) \o
    (IF done
     THEN <<[ev |-> "final", n |-> 0], [ev |-> "append", n |-> 0],
            [ev |-> "history", n |-> 0], [ev |-> "enable", n |-> 0]>>
     ELSE <<>>)

(***************************************************************************)
(* C11: when the sound fails to load the application still starts (only a  *)
(* missing image makes it exit, and the constructor is left by an          *)
(* exception only before the sound is loaded), the sound is loaded once    *)
(* and never again, play is never called, and a roll makes the same calls, *)
(* sound aside, as with the sound loaded and commits its outcome the same  *)
(* way.  The source catches pygame.error alone, so a load that fails with  *)
(* another exception ends the constructor: this does not hold.             *)
(***************************************************************************)
C11_SilentRollsComplete ==
    /\ sound_loads <= 1
    /\ app \in {"running", "destroyed", "exited"} => sound_loads = 1
    /\ app = "crashed" => sound_loads = 0
    /\ app = "exited" => images # 1..6
    /\ ~roll_sound => Positions(trace, "sound") = {}
    /\ accepted > 0 =>
          \E k \in 1..5 :
             /\ SelectSeq(trace, NotSound) = RollCalls(k, Completed)
             /\ Completed => k = 5
    /\ Completed =>
          /\ history[Len(history)] = sampled
          /\ history_label[Len(history_label)] = ToString(sampled)
          /\ dice_label = <<"images/dice", sampled, ".png">>

(***************************************************************************)
(* C12: when one of the six images cannot be read the application reports  *)
(* it and exits before the event loop: the widgets are never created, no   *)
(* request is ever accepted or dropped and history stays empty.            *)
(***************************************************************************)
C12_MissingImageExits ==
    /\ images # 1..6 => app \in {"starting", "exited", "crashed"}
    /\ app = "crashed" => images = {}
    /\ app = "exited" =>
          /\ images # 1..6
          /\ Positions(trace, "load_error") # {}
          /\ Positions(trace, "setup_ui") = {}
          /\ trace[Len(trace)].ev = "exit"
          /\ button_state = "none"
          /\ dice_label[1] = "none"
          /\ history_label = <<>>
          /\ accepted = 0
          /\ rejected = 0
          /\ draws = 0
          /\ timers = <<>>
          /\ history = <<>>
          /\ mixer = FALSE

\* dice4.png could not be read: three images loaded, then the exit
C12_Witness ==
    /\ app = "exited"
    /\ images = {1, 2, 3}
    /\ history = <<>>

(***************************************************************************)
(* C13: the roll button is disabled exactly while a roll is in flight: it  *)
(* is enabled before any roll, disabled by the accepted request before the *)
(* first frame is shown, and enabled again by the final step.              *)
(***************************************************************************)
C13_DisabledIffAnimating ==
    /\ button_state \in {"normal", "disabled"}
    /\ button_state = "disabled" <=> InFlight
    /\ button_state = "disabled" <=> timers # <<>>
    /\ accepted = 0 => button_state = "normal"
    /\ \A d \in Positions(trace, "disable"), f \in Positions(trace, "frame") : d < f
    /\ accepted > 0 => Positions(trace, "disable") = {1}

\* the button was re-enabled by a first roll, so a second request was accepted
C13_Witness ==
    /\ accepted = 2
    /\ Len(history) = 1
    /\ button_state = "disabled"
    /\ Len(trace) = 3 + (IF roll_sound THEN 1 ELSE 0)

Refreshes(tr) == Cardinality(Positions(tr, "history"))

(***************************************************************************)
(* C14: the history label is refreshed once per completed roll, by the     *)
(* final animation step and by no other step, and the text it gets already *)
(* ends with the outcome of that roll.                                     *)
(***************************************************************************)
C14_RefreshPerRoll ==
    /\ [](accepted > 0 => Refreshes(trace) = (IF Completed THEN 1 ELSE 0))
    /\ [][ (Refreshes(trace') > Refreshes(trace) \/ history_label' # history_label) =>
              /\ timers # <<>>
              /\ Head(timers).count = 0
              /\ accepted' = accepted
              /\ rejected' = rejected
              /\ history' = Append(history, sampled)
              /\ Refreshes(trace') = Refreshes(trace) + 1
              /\ Len(history_label') = 2 * (IF Len(history') < 5 THEN Len(history') ELSE 5)
              /\ history_label'[Len(history_label')] = ToString(sampled)
         ]_vars

\* the second roll completed and the label shows both outcomes
C14_Witness ==
    /\ Completed
    /\ Len(history) = 2
    /\ Len(history_label) = 4
    /\ history_label[2] = ToString(history[1])
    /\ history_label[4] = ToString(history[2])
    /\ Cardinality(Positions(trace, "history")) = 1

(***************************************************************************)
(* C15 as stated: a roll in flight leaves the animating state only by the  *)
(* step that finds the countdown exhausted and commits the outcome; every  *)
(* other step leaves it in flight with its callback pending in a running   *)
(* event loop.  Closing the window during a roll breaks this.              *)
(***************************************************************************)
C15_NoCancellation ==
    [][ (InFlight /\ app = "running") =>
            \/ /\ InFlight'
               /\ app' = "running"
               /\ timers' # <<>>
               /\ button_state' = "disabled"
            \/ /\ Head(timers).count = 0
               /\ history' = Append(history, sampled)
               /\ button_state' = "normal"
      ]_vars

(***************************************************************************)
(* C15, amended: the busy flag is cleared only by the step that finds the  *)
(* countdown exhausted, which commits the outcome, and a rejected request  *)
(* changes nothing; closing the window during a roll does end it           *)
(* uncommitted: history, the disabled button and the pending callback stay *)
(* as they were and no step follows.                                       *)
(***************************************************************************)
C15_OnlyCloseCancels ==
    [][ /\ (InFlight /\ app = "running") =>
            \/ /\ InFlight'
               /\ app' = "running"
               /\ timers' # <<>>
               /\ button_state' = "disabled"
            \/ /\ Head(timers).count = 0
               /\ history' = Append(history, sampled)
               /\ button_state' = "normal"
            \/ /\ app' = "destroyed"
               /\ UNCHANGED <<history, history_label, dice_label, button_state, timers,
                              accepted, rejected, sampled, trace>>
        /\ app = "destroyed" => UNCHANGED vars
      ]_vars

\* the window was closed in the middle of a roll, after a dropped request
C15_Witness ==
    /\ app = "destroyed"
    /\ InFlight
    /\ rejected = 1
    /\ button_state = "disabled"
    /\ Len(timers) = 1
    /\ timers[1].count = 2

(***************************************************************************)
(* C16: a roll takes exactly 5 timer callbacks.  The first frame is shown  *)
(* by the accepted request itself; while fewer than 5 callbacks have fired *)
(* exactly one is pending and one frame more than callbacks fired has been *)
(* shown; the 5th shows the final face, refreshes the history and leaves   *)
(* no timer pending.  With every draw 4 the result is face 4, history [4]. *)
(***************************************************************************)
C16_FiveTimerSteps ==
    LET fired == Cardinality(Positions(trace, "after")) - Len(timers)
        frames == Cardinality(Positions(trace, "frame"))
        finals == Cardinality(Positions(trace, "final"))
        always4 == rng.scripted /\ rng.base = 3 /\ rng.per_roll = 0 /\ rng.per_frame = 0
    IN  /\ accepted > 0 =>
              /\ fired \in 0..5
              /\ fired < 5 => Len(timers) = 1 /\ frames = fired + 1 /\ finals = 0
              /\ fired < 5 => Positions(trace, "history") = {} /\ InFlight
              /\ fired = 5 => timers = <<>> /\ frames = 5 /\ finals = 1
              /\ fired = 5 => Positions(trace, "history") # {} /\ Completed
        /\ (always4 /\ accepted = 1 /\ Completed) =>
              /\ dice_label = <<"images/dice", 4, ".png">>
              /\ history = <<4>>
              /\ history_label = <<"Roll History:\n", "4">>

\* every draw is 4 and the first roll has completed
C16_Witness ==
    /\ rng.scripted /\ rng.base = 3 /\ rng.per_roll = 0 /\ rng.per_frame = 0
    /\ accepted = 1
    /\ history = <<4>>
    /\ timers = <<>>
    /\ Cardinality(Positions(trace, "after")) = 5

(***************************************************************************)
(* C17: with the sound loaded every accepted roll plays it exactly once,   *)
(* right after the button is disabled and before the first face is shown;  *)
(* no later step of the roll and no rejected request plays it.             *)
(***************************************************************************)
C17_SoundOncePerRoll ==
    (roll_sound /\ accepted > 0) =>
        /\ Positions(trace, "sound") = {2}
        /\ trace[1].ev = "disable"
        /\ trace[3].ev = "frame"
        /\ \A f \in Positions(trace, "frame") \cup Positions(trace, "final") : f > 2

\* the sound is loaded, a second roll is in flight and a request was dropped
C17_Witness ==
    /\ roll_sound
    /\ accepted = 2
    /\ rejected = 1
    /\ InFlight
    /\ Len(trace) > 6
    /\ Positions(trace, "sound") = {2}

(***************************************************************************)
(* C18: when no roll is in flight the face shown is the last history       *)
(* entry, or face 1 with an empty history before any roll.                 *)
(***************************************************************************)
C18_IdleShowsLastResult ==
    /\ accepted = 0 => dice_label = <<"images/dice", 1, ".png">> /\ history = <<>>
    /\ (accepted > 0 /\ button_state = "normal") =>
          /\ history # <<>>
          /\ dice_label = <<"images/dice", history[Len(history)], ".png">>

\* idle after two rolls with different results, the second one on screen
C18_Witness ==
    /\ accepted = 2
    /\ button_state = "normal"
    /\ history[1] # history[2]
    /\ dice_label = <<"images/dice", history[2], ".png">>

(***************************************************************************)
(* C19: every accepted roll makes 6 draws, the final outcome first and     *)
(* then one per frame, and a rejected request makes none; with a fixed     *)
(* draw sequence the k-th roll commits draw 6(k-1)+1 and every frame shows *)
(* the draw made for it, the final step showing the first draw again.      *)
(***************************************************************************)
C19_SixDrawsPerRoll ==
    LET frames == Cardinality(Positions(trace, "frame"))
        d(i) == 1 + ((rng.base + rng.per_roll * (i \div 6) + rng.per_frame * (i % 6)) % 6)
        n == Len(history)
    IN  /\ draws = 6 * n + (IF InFlight THEN 1 + frames ELSE 0)
        /\ InFlight => frames \in 1..5
        /\ rng.scripted =>
              /\ \A k \in 1..n : history[k] = d(6 * (k - 1))
              /\ InFlight => sampled = d(6 * n) /\ dice_label = <<"images/dice", d(draws - 1), ".png">>
              /\ Completed => dice_label = <<"images/dice", d(6 * (n - 1)), ".png">>

\* a scripted source whose draws differ within a roll: two rolls done, twelve draws made
C19_Witness ==
    /\ rng.scripted
    /\ rng.per_frame = 1
    /\ rng.per_roll = 1
    /\ rejected = 1
    /\ Completed
    /\ Len(history) = 2
    /\ draws = 12

(***************************************************************************)
(* C20: the length of history is the number of accepted requests minus the *)
(* number of rolls in flight, which is 0 or 1: the pending callback, and   *)
(* the disabled button, stand for the one roll not yet committed.          *)
(***************************************************************************)
C20_HistoryCountsAccepted ==
    /\ Len(timers) \in {0, 1}
    /\ Len(history) = accepted - Len(timers)
    /\ Len(history) = accepted - (IF button_state = "disabled" THEN 1 ELSE 0)

\* three rolls accepted, one request dropped, the third still in flight
C20_Witness ==
    /\ accepted = 3
    /\ rejected = 1
    /\ Len(history) = 2
    /\ Len(timers) = 1

====
